---- MODULE Spec2Model ----
(***************************************************************************)
(* Model of tradingview_app/app.py: the data endpoints of the market       *)
(* microstructure service and the derived-signal pipeline of /api/signal.  *)
(*                                                                         *)
(* Numbers are exact rationals <<n, d>> with d > 0 (floating-point         *)
(* rounding is not modelled); <<0, 0>> is NaN and <<1, 0>>, <<-1, 0>> are  *)
(* +inf and -inf, the values float division produces on a zero divisor.    *)
(* A dataframe is a sequence of rows, a row a function from column names   *)
(* to cells.  The cells of TimeBarStart are records (a time-of-day value,  *)
(* a string, None, or the integer 0 that fillna(0) writes).                *)
(***************************************************************************)
EXTENDS Integers, Sequences, FiniteSets, TLC

(* ---------------- bounds ---------------- *)

\* longest query result drawn from SeqBars
MaxBars == 3

(* ---------------- exact arithmetic standing for float64 ---------------- *)

Abs(n) == IF n < 0 THEN -n ELSE n

Sign(n) == IF n < 0 THEN -1 ELSE IF n > 0 THEN 1 ELSE 0

RECURSIVE GCD(_, _)
GCD(a, b) == IF b = 0 THEN a ELSE GCD(b, a % b)

NaN == <<0, 0>>

Rat(n, d) ==
    IF d = 0 THEN <<Sign(n), 0>>
    ELSE LET g == GCD(Abs(n), Abs(d))
             s == Sign(d)
         IN  <<(s * n) \div g, Abs(d) \div g>>

Num(n) == <<n, 1>>

IsNaN(x) == x = NaN

IsFinite(x) == x[2] # 0

RAdd(x, y) ==
    IF IsFinite(x) /\ IsFinite(y) THEN Rat(x[1] * y[2] + y[1] * x[2], x[2] * y[2])
    ELSE IF IsNaN(x) \/ IsNaN(y) THEN NaN
    ELSE IF IsFinite(x) THEN y
    ELSE IF IsFinite(y) THEN x
    ELSE IF x = y THEN x ELSE NaN

RNeg(x) == <<-x[1], x[2]>>

RSub(x, y) == RAdd(x, RNeg(y))

RMul(x, y) ==
    IF IsFinite(x) /\ IsFinite(y) THEN Rat(x[1] * y[1], x[2] * y[2])
    ELSE IF IsNaN(x) \/ IsNaN(y) THEN NaN
    ELSE <<Sign(x[1]) * Sign(y[1]), 0>>

RDiv(x, y) ==
    IF IsFinite(x) /\ IsFinite(y) THEN Rat(x[1] * y[2], x[2] * y[1])
    ELSE IF IsNaN(x) \/ IsNaN(y) THEN NaN
    ELSE IF IsFinite(x) THEN Num(0)
    ELSE IF IsFinite(y) THEN <<Sign(x[1]) * (IF y[1] < 0 THEN -1 ELSE 1), 0>>
    ELSE NaN

\* x <= y on floats: false when either side is NaN
RLe(x, y) ==
    /\ ~IsNaN(x)
    /\ ~IsNaN(y)
    /\ IF IsFinite(x) \/ IsFinite(y) THEN x[1] * y[2] <= y[1] * x[2]
       ELSE x[1] <= y[1]

RLt(x, y) == RLe(x, y) /\ x # y

RAbs(x) == <<Abs(x[1]), x[2]>>

(* ---------------- pandas Series operations ---------------- *)

SeriesAdd(a, b) == [i \in 1..Len(a) |-> RAdd(a[i], b[i])]

SeriesSub(a, b) == [i \in 1..Len(a) |-> RSub(a[i], b[i])]

SeriesDiv(a, b) == [i \in 1..Len(a) |-> RDiv(a[i], b[i])]

SeriesScale(a, k) == [i \in 1..Len(a) |-> RMul(a[i], k)]

\* replace(0, 1) left out: zero divisors stay
replace_nothing(a) == a

\* Series.replace(0, 1)
replace_0_1(a) == [i \in 1..Len(a) |-> IF a[i] = Num(0) THEN Num(1) ELSE a[i]]

\* numpy clip of one value: NaN stays NaN
clip1(x, lo, hi) ==
    IF IsNaN(x) THEN NaN
    ELSE IF RLt(x, lo) THEN lo
    ELSE IF RLt(hi, x) THEN hi
    ELSE x

\* clip that bounds the values from above only
clip_upper_only(a, lo, hi) ==
    [i \in 1..Len(a) |-> IF RLt(hi, a[i]) THEN hi ELSE a[i]]

\* Series.clip(lo, hi)
clip(a, lo, hi) == [i \in 1..Len(a) |-> clip1(a[i], lo, hi)]

\* Series.abs()
abs(a) == [i \in 1..Len(a) |-> RAbs(a[i])]

\* Series.cumsum(): the running total, accumulated in row order
RECURSIVE cumsum(_)
cumsum(a) ==
    IF Len(a) = 0 THEN << >>
    ELSE LET before == cumsum(SubSeq(a, 1, Len(a) - 1))
             last   == a[Len(a)]
         IN  Append(before,
                    IF Len(before) = 0 THEN last
                    ELSE RAdd(before[Len(before)], last))

\* Series.diff(): the first element has no predecessor and is NaN
\* diff(2): each row compared with the row two before it
diff_two_rows(a) == [i \in 1..Len(a) |-> IF i <= 2 THEN NaN ELSE RSub(a[i], a[i - 2])]

diff(a) == [i \in 1..Len(a) |-> IF i = 1 THEN NaN ELSE RSub(a[i], a[i - 1])]

\* Series.fillna(0)
series_fillna(a) == [i \in 1..Len(a) |-> IF IsNaN(a[i]) THEN Num(0) ELSE a[i]]

(* ---------------- cells of the TimeBarStart column ---------------- *)

\* a datetime.time value
TimeOfDay(h, m) == [k |-> "time", h |-> h, m |-> m, s |-> << >>]

\* a str value, as its characters
TimeStr(chars) == [k |-> "str", h |-> 0, m |-> 0, s |-> chars]

\* None (a missing TimeBarStart)
NoTime == [k |-> "none", h |-> 0, m |-> 0, s |-> << >>]

\* the integer 0 that fillna(0) puts in place of a leading None
ZeroTime == [k |-> "int", h |-> 0, m |-> 0, s |-> << >>]

Digits == <<"0", "1", "2", "3", "4", "5", "6", "7", "8", "9">>

IsDigit(c) == \E i \in 1..Len(Digits) : Digits[i] = c

DigitVal(c) == (CHOOSE i \in 1..Len(Digits) : Digits[i] = c) - 1

\* str(time_val) of a cell that has no attribute 'hour'
str(cell) ==
    IF cell.k = "str" THEN cell.s
    ELSE IF cell.k = "int" THEN <<"0">>
    ELSE <<"N", "o", "n", "e">>

\* str.split(':')
RECURSIVE split(_)
split(chars) ==
    IF Len(chars) = 0 THEN << << >> >>
    ELSE LET parts == split(SubSeq(chars, 1, Len(chars) - 1))
             c     == chars[Len(chars)]
         IN  IF c = ":" THEN Append(parts, << >>)
             ELSE [parts EXCEPT ![Len(parts)] = Append(@, c)]

\* int(text) succeeds on a non-empty run of decimal digits
int_ok(chars) == Len(chars) > 0 /\ \A i \in 1..Len(chars) : IsDigit(chars[i])

RECURSIVE int(_)
int(chars) ==
    IF Len(chars) = 0 THEN 0
    ELSE 10 * int(SubSeq(chars, 1, Len(chars) - 1)) + DigitVal(chars[Len(chars)])

\* the last two parts taken instead of the first two: split(':')[-2:]
hour_minute_last_two(time_val) ==
    IF time_val.k = "time" THEN <<TRUE, time_val.h, time_val.m>>
    ELSE LET parts == split(str(time_val))
             two   == SubSeq(parts, IF Len(parts) < 2 THEN 1 ELSE Len(parts) - 1, Len(parts))
         IN  IF Len(two) = 2 /\ int_ok(two[1]) /\ int_ok(two[2])
             THEN <<TRUE, int(two[1]), int(two[2])>>
             ELSE <<FALSE, 0, 0>>

\* hour, minute = ... : <<TRUE, hour, minute>>, or <<FALSE, 0, 0>> when the
\* unpacking or int() raises ValueError
hour_minute(time_val) ==
    IF time_val.k = "time" THEN <<TRUE, time_val.h, time_val.m>>
    ELSE LET parts == split(str(time_val))
             two   == SubSeq(parts, 1, IF Len(parts) < 2 THEN Len(parts) ELSE 2)
         IN  IF Len(two) = 2 /\ int_ok(two[1]) /\ int_ok(two[2])
             THEN <<TRUE, int(two[1]), int(two[2])>>
             ELSE <<FALSE, 0, 0>>

(* ---------------- datetime(year, month, day, hour, minute).timestamp() ---------------- *)

IsLeap(y) == (y % 4 = 0 /\ y % 100 # 0) \/ y % 400 = 0

DaysInMonth(y, m) ==
    IF m = 2 THEN (IF IsLeap(y) THEN 29 ELSE 28)
    ELSE IF m \in {4, 6, 9, 11} THEN 30 ELSE 31

\* the arguments datetime() accepts without ValueError
datetime_ok(year, month, day, hour, minute) ==
    /\ year \in 1..9999
    /\ month \in 1..12
    /\ day \in 1..DaysInMonth(year, month)
    /\ hour \in 0..23
    /\ minute \in 0..59

\* days from 1970-01-01 to the civil date
DaysFromCivil(year, month, day) ==
    LET y   == IF month <= 2 THEN year - 1 ELSE year
        era == y \div 400
        yoe == y - era * 400
        mp  == IF month > 2 THEN month - 3 ELSE month + 9
        doy == (153 * mp + 2) \div 5 + day - 1
        doe == yoe * 365 + yoe \div 4 - yoe \div 100 + doy
    IN  era * 146097 + doe - 719468

\* int(dt.timestamp()) of a naive datetime, the server's local zone being UTC
timestamp(year, month, day, hour, minute) ==
    DaysFromCivil(year, month, day) * 86400 + hour * 3600 + minute * 60

\* the month taken from the last three digits: (date_val % 1000) // 100
date_parts_month_of_thousand(d) == <<d \div 10000, (d % 1000) \div 100, d % 100>>

\* <<year, month, day>> of an integer date YYYYMMDD
date_parts(d) == <<d \div 10000, (d % 10000) \div 100, d % 100>>

\* One pass of the loop over df.iterrows(): <<TRUE, epoch>> or <<FALSE, 0>>
\* when the pass raises.  is_float: the Date column holds floats (it came
\* back from the query with a NULL in it), and datetime() rejects floats.
row_timestamp(row, is_float) ==
    LET hm       == hour_minute(row["TimeBarStart"])
        date_val == row["Date"]
        year     == date_parts(date_val[1])[1]
        month    == date_parts(date_val[1])[2]
        day      == date_parts(date_val[1])[3]
    IN  IF ~hm[1] THEN <<FALSE, 0>>
        ELSE IF is_float \/ ~IsFinite(date_val) THEN <<FALSE, 0>>
        ELSE IF ~datetime_ok(year, month, day, hm[2], hm[3]) THEN <<FALSE, 0>>
        ELSE <<TRUE, timestamp(year, month, day, hm[2], hm[3])>>

\* the NULLs of a column make duckdb's .df() return it as float64
date_is_float(raw) == \E i \in 1..Len(raw) : IsNaN(raw[i]["Date"])

timestamps_ok(df, is_float) == \A i \in 1..Len(df) : row_timestamp(df[i], is_float)[1]

\* the rows visited last to first
timestamps_reversed(df, is_float) ==
    [i \in 1..Len(df) |-> row_timestamp(df[Len(df) + 1 - i], is_float)[2]]

timestamps_of(df, is_float) == [i \in 1..Len(df) |-> row_timestamp(df[i], is_float)[2]]

(* ---------------- DataFrame operations ---------------- *)

\* pandas isna() of one cell
isna(c, cell) == IF c = "TimeBarStart" THEN cell.k = "none" ELSE IsNaN(cell)

\* the value fillna(0) writes into column c
zero_of(c) == IF c = "TimeBarStart" THEN ZeroTime ELSE Num(0)

\* DataFrame.ffill(): row by row, a missing cell takes the cell above it
RECURSIVE ffill(_)
ffill(df) ==
    IF Len(df) <= 1 THEN df
    ELSE LET above == ffill(SubSeq(df, 1, Len(df) - 1))
             prev  == above[Len(above)]
             row   == df[Len(df)]
         IN  Append(above,
                    [c \in DOMAIN row |-> IF isna(c, row[c]) THEN prev[c] ELSE row[c]])

\* DataFrame.fillna(0)
fillna(df) ==
    [i \in 1..Len(df) |->
        [c \in DOMAIN df[i] |-> IF isna(c, df[i][c]) THEN zero_of(c) ELSE df[i][c]]]

\* the two fills in the other order: fillna(0) leaves ffill() nothing to do
gap_fill_zero_first(df) == ffill(fillna(df))

\* ffill(limit=1) alone: a gap takes the raw cell above it, if that is present
ffill_limit_1(df) ==
    [i \in 1..Len(df) |->
        [c \in DOMAIN df[i] |->
            IF isna(c, df[i][c]) /\ i > 1 THEN df[i - 1][c] ELSE df[i][c]]]

\* df = df.ffill().fillna(0)
gap_fill(df) == fillna(ffill(df))

\* df["name"]
Col(df, c) == [i \in 1..Len(df) |-> df[i][c]]

(* ---------------- the endpoints and the columns their queries select ---------------- *)

DateEndpoints ==
    {"spread", "indicators", "volume", "liquidity", "flow",
     "accumulation", "delta", "signal"}

Endpoints == {"history"} \cup DateEndpoints

\* the endpoints whose failure paths return a fixed sample payload
SampleEndpoints == {"history", "spread", "indicators", "volume", "liquidity", "flow"}

TradeColumns == {"TradeAtBid", "TradeAtBidMid", "TradeAtMid", "TradeAtMidAsk", "TradeAtAsk"}

TickColumns ==
    {"UptickVolume", "DowntickVolume", "RepeatUptickVolume", "RepeatDowntickVolume"}

SizeColumns == {"OpenBidSize", "OpenAskSize", "CloseBidSize", "CloseAskSize"}

\* the SELECT list of each date-filtered endpoint (result column names)
Columns(ep) ==
    {"TimeBarStart", "Date", "LastTradePrice"} \cup
    CASE ep = "spread"     -> {"MinSpread", "MaxSpread"}
      [] ep = "indicators" -> {"vwap", "TradeAtBid", "TradeAtAsk", "TotalTrades"}
      [] ep = "volume"     -> TickColumns \cup {"Volume", "TotalTrades", "UnknownTickVolume"}
      [] ep = "liquidity"  -> SizeColumns \cup {"NBBOQuoteCount", "TimeWeightBid", "TimeWeightAsk"}
      [] ep = "flow"       -> TradeColumns \cup
                              {"TradeAtCrossOrLocked", "TradeToMidVolWeight",
                               "TradeToMidVolWeightRelative"}
      [] ep = "accumulation" -> TradeColumns \cup TickColumns \cup SizeColumns \cup
                              {"TradeAtCrossOrLocked", "Volume", "TotalTrades",
                               "FirstTradePrice", "HighTradePrice", "LowTradePrice",
                               "VolumeWeightPrice", "TradeToMidVolWeight"}
      [] ep = "delta"      -> TradeColumns \cup TickColumns \cup SizeColumns \cup
                              {"Volume", "TotalTrades", "VolumeWeightPrice",
                               "TradeToMidVolWeight", "TradeToMidVolWeightRelative"}
      [] ep = "signal"     -> TradeColumns \cup TickColumns \cup SizeColumns \cup
                              {"Volume", "VolumeWeightPrice", "TradeToMidVolWeight",
                               "TradeToMidVolWeightRelative", "MinSpread", "MaxSpread"}

\* the table column behind a result column ("VolumeWeightPrice as vwap")
SourceColumn(c) == IF c = "vwap" THEN "VolumeWeightPrice" ELSE c

\* the columns of taq_1min that the date-filtered endpoints read
TableColumns == UNION {{SourceColumn(c) : c \in Columns(ep)} : ep \in DateEndpoints}

\* SELECT <columns of ep> over the rows of the table
select(ep, rows) ==
    [i \in 1..Len(rows) |-> [c \in Columns(ep) |-> rows[i][SourceColumn(c)]]]

(* ---------------- the bars the database may hold ---------------- *)

\* a trading date, YYYYMMDD
D1 == 20200128

\* the minute slots of the table in ORDER BY Date, TimeBarStart order; the
\* last one has a NULL Date and a NULL TimeBarStart
Slots == 1..5

NullSlot == CHOOSE s \in Slots : \A t \in Slots : t <= s

SlotDate(slot) ==
    IF slot = NullSlot THEN NaN ELSE IF slot = 4 THEN Num(D1 + 1) ELSE Num(D1)

SlotMinute(slot) == IF slot \in 1..3 THEN 29 + slot ELSE 30

TwoDigits(n) == <<Digits[(n \div 10) + 1], Digits[(n % 10) + 1]>>

\* the TimeBarStart cell of a slot: a TIME column arrives as datetime.time,
\* a VARCHAR column as 'HH:MM' or 'HH:MM:SS'
SlotTime(slot, fmt) ==
    IF slot = NullSlot THEN NoTime
    ELSE IF fmt = "time" THEN TimeOfDay(9, SlotMinute(slot))
    ELSE IF fmt = "hhmm" THEN TimeStr(TwoDigits(9) \o <<":">> \o TwoDigits(SlotMinute(slot)))
    ELSE TimeStr(TwoDigits(9) \o <<":">> \o TwoDigits(SlotMinute(slot)) \o <<":", "0", "0">>)

TimeFormats == {"time", "hhmm", "hhmmss"}

\* A bar: trade = <<TradeAtAsk, TradeAtMidAsk, TradeAtBid, TradeAtBidMid>>,
\* tick = <<UptickVolume, RepeatUptickVolume, DowntickVolume, RepeatDowntickVolume>>,
\* size = <<OpenBidSize, CloseBidSize, OpenAskSize, CloseAskSize>>,
\* rel = TradeToMidVolWeightRelative, other = every remaining numeric column.
MkBar(time, date, trade, tick, size, rel, other) ==
    [c \in TableColumns |->
        CASE c = "TimeBarStart"         -> time
          [] c = "Date"                 -> date
          [] c = "TradeAtAsk"           -> trade[1]
          [] c = "TradeAtMidAsk"        -> trade[2]
          [] c = "TradeAtBid"           -> trade[3]
          [] c = "TradeAtBidMid"        -> trade[4]
          [] c = "UptickVolume"         -> tick[1]
          [] c = "RepeatUptickVolume"   -> tick[2]
          [] c = "DowntickVolume"       -> tick[3]
          [] c = "RepeatDowntickVolume" -> tick[4]
          [] c = "OpenBidSize"          -> size[1]
          [] c = "CloseBidSize"         -> size[2]
          [] c = "OpenAskSize"          -> size[3]
          [] c = "CloseAskSize"         -> size[4]
          [] c = "TradeToMidVolWeightRelative" -> rel
          [] OTHER                      -> other]

Quad(a, b, c, d) == <<Num(a), Num(b), Num(c), Num(d)>>

ZeroQuad == Quad(0, 0, 0, 0)

NaNQuad == <<NaN, NaN, NaN, NaN>>

\* "a": a regular bar whose values depend on the minute; "b": a bar with
\* negative and out-of-range fields; "gap": every numeric field missing;
\* "part": some fields missing
Variants == {"a", "b", "gap", "part"}

VariantBar(slot, v, fmt) ==
    LET time == SlotTime(slot, fmt)
        date == SlotDate(slot)
    IN  CASE v = "a" ->
               MkBar(time, date,
                     IF slot = 1 THEN Quad(5, 0, 3, 0)
                     ELSE IF slot = 3 THEN Quad(2, 1, 1, 0)
                     ELSE IF slot = NullSlot THEN Quad(1, 1, 0, 0) ELSE ZeroQuad,
                     IF slot = 2 THEN Quad(2, 0, 3, 0) ELSE ZeroQuad,
                     IF slot = 4 THEN Quad(3, 1, 1, 1) ELSE ZeroQuad,
                     Num(0), Num(slot))
          [] v = "b" ->
               MkBar(time, date, Quad(-1, 0, 1, 0), Quad(0, 1, 0, 3), Quad(0, 0, 2, 2),
                     Rat(3, 2), Num(7))
          [] v = "gap" ->
               MkBar(time, date, NaNQuad, NaNQuad, NaNQuad, NaN, NaN)
          [] v = "part" ->
               MkBar(time, date, NaNQuad, <<Num(1), NaN, Num(0), NaN>>,
                     <<NaN, Num(2), NaN, Num(0)>>, NaN, Num(9))

RECURSIVE Ascending(_)
Ascending(S) ==
    IF S = {} THEN << >>
    ELSE LET m == CHOOSE x \in S : \A y \in S : x <= y
         IN  <<m>> \o Ascending(S \ {m})

\* ORDER BY Date, TimeBarStart: the NULL key sorts last, or first under
\* the engine's other NULL ordering
SlotOrder(S, nulls_first) ==
    IF nulls_first /\ NullSlot \in S
    THEN <<NullSlot>> \o Ascending(S \ {NullSlot})
    ELSE Ascending(S)

\* the sorted tables over the minutes S, one bar per minute
TablesOn(S) ==
    {[i \in 1..Cardinality(S) |->
          VariantBar(SlotOrder(S, nf)[i], v[SlotOrder(S, nf)[i]], fmt)] :
        v \in [S -> Variants], fmt \in TimeFormats, nf \in BOOLEAN}

\* the sorted tables of at most MaxBars bars
SeqTables == UNION {TablesOn(S) : S \in {S0 \in SUBSET Slots : Cardinality(S0) <= MaxBars}}

\* field groups of the one-bar tables: zero, missing, regular, and groups
\* with negative fields (a zero total with a non-zero difference, and
\* quotients beyond +-100)
RichQuads ==
    {ZeroQuad, NaNQuad, Quad(2, 1, 1, 0), Quad(0, 1, 2, 1),
     Quad(1, 0, -1, 0), Quad(2, 0, -1, 0), Quad(-1, 0, 2, 0)}

RichRels == {NaN, Rat(-3, 2), Rat(1, 2), Rat(3, 2)}

\* the tables of one bar, every combination of the field groups
RichTables ==
    {<<MkBar(TimeOfDay(9, 30), Num(D1), trade, tick, size, rel, Num(1))>> :
        trade \in RichQuads, tick \in RichQuads, size \in RichQuads, rel \in RichRels}

\* what taq_1min may hold for the ticker AMD
Tables == SeqTables \cup RichTables

\* two bars of one day, one of them with a NULL TimeBarStart, which
\* ORDER BY puts last or, under the other NULL ordering, first
UntimedTables ==
    {IF nf THEN <<[VariantBar(4, "a", fmt) EXCEPT !["TimeBarStart"] = NoTime],
                  VariantBar(4, v, fmt)>>
     ELSE <<VariantBar(4, v, fmt),
            [VariantBar(4, "a", fmt) EXCEPT !["TimeBarStart"] = NoTime]>> :
        v \in Variants, fmt \in TimeFormats, nf \in BOOLEAN}

\* what taq_1min may hold for the ticker MSFT: one bar, of the next day or
\* without Date and TimeBarStart, or two bars one of which has no time
SmallTables ==
    TablesOn({}) \cup TablesOn({4}) \cup TablesOn({NullSlot}) \cup UntimedTables


\* the TimeBarStart cell of hour h, minute m under each column type
TimeCell(h, m, fmt) ==
    IF fmt = "time" THEN TimeOfDay(h, m)
    ELSE IF fmt = "hhmm" THEN TimeStr(TwoDigits(h) \o <<":">> \o TwoDigits(m))
    ELSE TimeStr(TwoDigits(h) \o <<":">> \o TwoDigits(m) \o <<":", "0", "0">>)

\* years whose timestamps fit the 32-bit integers of TLC
Years == {1970, 2000, 2020, 2037}

\* YYYYMMDD values of the calendar, and with them the days 29..31 that
\* some months lack
CalendarDates == {y * 10000 + m * 100 + d : y \in Years, m \in 1..12, d \in 1..31}

\* what taq_1min may hold for the ticker GOOGL: one bar, of any date of
\* the calendar at 09:30 or of any minute of the day D1
ClockTables ==
    TablesOn({})
    \cup {<<MkBar(TimeOfDay(9, 30), Num(d), ZeroQuad, ZeroQuad, ZeroQuad, Num(0), Num(1))>> :
            d \in CalendarDates}
    \cup {<<MkBar(TimeCell(h, m, fmt), Num(D1), ZeroQuad, ZeroQuad, ZeroQuad, Num(0), Num(1))>> :
            h \in 0..23, m \in 0..59, fmt \in TimeFormats}

\* tickers, as their characters
AMD == <<"A", "M", "D">>

MSFT == <<"M", "S", "F", "T">>

GOOGL == <<"G", "O", "O", "G", "L">>

NVDA == <<"N", "V", "D", "A">>

\* the bars taq_1min may hold under a ticker
ticker_tables(ticker) ==
    IF ticker = AMD THEN Tables
    ELSE IF ticker = MSFT THEN SmallTables
    ELSE IF ticker = GOOGL THEN ClockTables
    ELSE TablesOn({})

\* con.execute(query).df(): WHERE Ticker = ... [AND Date = date]
\* ORDER BY Date, TimeBarStart; a date of None or 0 adds no filter
query_results(ep, ticker, date) ==
    {select(ep, t) : t \in {t0 \in ticker_tables(ticker) :
        date = 0 \/ \A i \in 1..Len(t0) : t0[i]["Date"] = Num(date)}}

(* ---------------- the derived signals of get_signal_data ---------------- *)

Lo == Num(-100)

Hi == Num(100)

\* ((plus - minus) / (plus + minus).replace(0, 1) * 100)
imbalance_pct(plus, minus) ==
    SeriesScale(SeriesDiv(SeriesSub(plus, minus), replace_0_1(SeriesAdd(plus, minus))),
                Num(100))

buy_vol_of(df) == SeriesAdd(Col(df, "TradeAtAsk"), Col(df, "TradeAtMidAsk"))

sell_vol_of(df) == SeriesAdd(Col(df, "TradeAtBid"), Col(df, "TradeAtBidMid"))

uptick_of(df) == SeriesAdd(Col(df, "UptickVolume"), Col(df, "RepeatUptickVolume"))

downtick_of(df) == SeriesAdd(Col(df, "DowntickVolume"), Col(df, "RepeatDowntickVolume"))

bid_size_of(df) ==
    SeriesScale(SeriesAdd(Col(df, "OpenBidSize"), Col(df, "CloseBidSize")), Rat(1, 2))

ask_size_of(df) ==
    SeriesScale(SeriesAdd(Col(df, "OpenAskSize"), Col(df, "CloseAskSize")), Rat(1, 2))

delta_score_of(df) == clip(imbalance_pct(buy_vol_of(df), sell_vol_of(df)), Lo, Hi)

tick_score_of(df) == clip(imbalance_pct(uptick_of(df), downtick_of(df)), Lo, Hi)

\* the book score taken from the opening sizes alone
book_score_of_open_sizes(df) ==
    clip(imbalance_pct(Col(df, "OpenBidSize"), Col(df, "OpenAskSize")), Lo, Hi)

book_score_of(df) == clip(imbalance_pct(bid_size_of(df), ask_size_of(df)), Lo, Hi)

\* the trade-to-mid score without its clip
mid_score_unclipped(df) == SeriesScale(Col(df, "TradeToMidVolWeightRelative"), Num(100))

mid_score_of(df) ==
    clip(SeriesScale(Col(df, "TradeToMidVolWeightRelative"), Num(100)), Lo, Hi)

\* the literals 0.40, 0.25, 0.20, 0.15 of the weighted sum
Weights ==
    [delta |-> Rat(40, 100), tick |-> Rat(25, 100),
     book |-> Rat(20, 100), mid |-> Rat(15, 100)]

\* the weights of the delta and tick scores exchanged
combined_signal_swapped_weights(delta_score, tick_score, book_score, mid_score) ==
    clip(SeriesAdd(SeriesAdd(SeriesAdd(SeriesScale(delta_score, Weights.tick),
                                       SeriesScale(tick_score, Weights.delta)),
                             SeriesScale(book_score, Weights.book)),
                   SeriesScale(mid_score, Weights.mid)),
         Lo, Hi)

\* Weights: Delta 40%, Tick 25%, Book 20%, Mid 15%
combined_signal_of(delta_score, tick_score, book_score, mid_score) ==
    clip(SeriesAdd(SeriesAdd(SeriesAdd(SeriesScale(delta_score, Weights.delta),
                                       SeriesScale(tick_score, Weights.tick)),
                             SeriesScale(book_score, Weights.book)),
                   SeriesScale(mid_score, Weights.mid)),
         Lo, Hi)

\* the running total started one row late
cumulative_signal_skip_first(combined_signal) ==
    cumsum([i \in 1..Len(combined_signal) |->
               IF i = 1 THEN Num(0) ELSE combined_signal[i]])

cumulative_signal_of(combined_signal) == cumsum(combined_signal)

signal_strength_of(combined_signal) == abs(combined_signal)

\* diff() without the fillna(0): the first element stays NaN
momentum_without_fillna(cumulative_signal) == diff(cumulative_signal)

\* diff(-1): each row compared with the row after it
momentum_forward(cumulative_signal) ==
    [i \in 1..Len(cumulative_signal) |->
        IF i = Len(cumulative_signal) THEN Num(0)
        ELSE RSub(cumulative_signal[i], cumulative_signal[i + 1])]

momentum_of(cumulative_signal) == series_fillna(diff(cumulative_signal))

\* the "ok" response of get_signal_data for the gap-filled frame df
signal_response(df, timestamps) ==
    LET delta_score       == delta_score_of(df)
        tick_score        == tick_score_of(df)
        book_score        == book_score_of(df)
        mid_score         == mid_score_of(df)
        combined_signal   == combined_signal_of(delta_score, tick_score, book_score, mid_score)
        cumulative_signal == cumulative_signal_of(combined_signal)
    IN  [s                 |-> "ok",
         t                 |-> timestamps,
         delta_score       |-> delta_score,
         tick_score        |-> tick_score,
         book_score        |-> book_score,
         mid_score         |-> mid_score,
         combined_signal   |-> combined_signal,
         cumulative_signal |-> cumulative_signal,
         signal_strength   |-> signal_strength_of(combined_signal),
         momentum          |-> momentum_of(cumulative_signal),
         last_price        |-> Col(df, "LastTradePrice"),
         vwap              |-> Col(df, "VolumeWeightPrice"),
         volume            |-> Col(df, "Volume"),
         min_spread        |-> Col(df, "MinSpread"),
         max_spread        |-> Col(df, "MaxSpread")]

(* ---------------- the responses of the other endpoints ---------------- *)

\* response key -> result column, for the columns an endpoint returns as they are
PassThrough(ep) ==
    CASE ep = "spread" ->
           [min_spread |-> "MinSpread", max_spread |-> "MaxSpread",
            last_price |-> "LastTradePrice"]
      [] ep = "indicators" ->
           [vwap |-> "vwap", trade_at_bid |-> "TradeAtBid", trade_at_ask |-> "TradeAtAsk",
            total_trades |-> "TotalTrades", last_price |-> "LastTradePrice"]
      [] ep = "volume" ->
           [volume |-> "Volume", total_trades |-> "TotalTrades",
            uptick_volume |-> "UptickVolume", downtick_volume |-> "DowntickVolume",
            repeat_uptick |-> "RepeatUptickVolume",
            repeat_downtick |-> "RepeatDowntickVolume",
            unknown_tick |-> "UnknownTickVolume", last_price |-> "LastTradePrice"]
      [] ep = "liquidity" ->
           [open_bid_size |-> "OpenBidSize", open_ask_size |-> "OpenAskSize",
            close_bid_size |-> "CloseBidSize", close_ask_size |-> "CloseAskSize",
            nbbo_quote_count |-> "NBBOQuoteCount", time_weight_bid |-> "TimeWeightBid",
            time_weight_ask |-> "TimeWeightAsk", last_price |-> "LastTradePrice"]
      [] ep = "flow" ->
           [trade_at_bid |-> "TradeAtBid", trade_at_bid_mid |-> "TradeAtBidMid",
            trade_at_mid |-> "TradeAtMid", trade_at_mid_ask |-> "TradeAtMidAsk",
            trade_at_ask |-> "TradeAtAsk", trade_at_cross |-> "TradeAtCrossOrLocked",
            trade_to_mid_weight |-> "TradeToMidVolWeight",
            trade_to_mid_relative |-> "TradeToMidVolWeightRelative",
            last_price |-> "LastTradePrice"]
      [] ep = "accumulation" ->
           [trade_at_bid |-> "TradeAtBid", trade_at_bid_mid |-> "TradeAtBidMid",
            trade_at_mid |-> "TradeAtMid", trade_at_mid_ask |-> "TradeAtMidAsk",
            trade_at_ask |-> "TradeAtAsk", trade_at_cross |-> "TradeAtCrossOrLocked",
            volume |-> "Volume", total_trades |-> "TotalTrades",
            uptick_volume |-> "UptickVolume", downtick_volume |-> "DowntickVolume",
            repeat_uptick |-> "RepeatUptickVolume",
            repeat_downtick |-> "RepeatDowntickVolume",
            open_bid_size |-> "OpenBidSize", open_ask_size |-> "OpenAskSize",
            close_bid_size |-> "CloseBidSize", close_ask_size |-> "CloseAskSize",
            first_price |-> "FirstTradePrice", last_price |-> "LastTradePrice",
            high_price |-> "HighTradePrice", low_price |-> "LowTradePrice",
            vwap |-> "VolumeWeightPrice", trade_to_mid |-> "TradeToMidVolWeight"]
      [] ep = "delta" ->
           [volume |-> "Volume", last_price |-> "LastTradePrice",
            vwap |-> "VolumeWeightPrice", trade_to_mid |-> "TradeToMidVolWeight"]

\* delta taken from the aggressive trades alone: TradeAtAsk - TradeAtBid
accumulation_derived_aggressive_only(df) ==
    LET delta == SeriesSub(Col(df, "TradeAtAsk"), Col(df, "TradeAtBid"))
    IN  [buy_volume       |-> buy_vol_of(df),
         sell_volume      |-> sell_vol_of(df),
         delta            |-> delta,
         cumulative_delta |-> cumsum(delta)]

\* the derived arrays of get_accumulation_data
accumulation_derived(df) ==
    LET delta == SeriesSub(SeriesSub(SeriesAdd(Col(df, "TradeAtAsk"), Col(df, "TradeAtMidAsk")),
                                     Col(df, "TradeAtBid")),
                           Col(df, "TradeAtBidMid"))
    IN  [buy_volume       |-> buy_vol_of(df),
         sell_volume      |-> sell_vol_of(df),
         delta            |-> delta,
         cumulative_delta |-> cumsum(delta)]

\* the tick delta taken without the repeat volumes
delta_derived_without_repeat_ticks(df) ==
    LET buy_vol    == buy_vol_of(df)
        sell_vol   == sell_vol_of(df)
        delta      == SeriesSub(buy_vol, sell_vol)
        tick_delta == SeriesSub(Col(df, "UptickVolume"), Col(df, "DowntickVolume"))
    IN  [delta                 |-> delta,
         cumulative_delta      |-> cumsum(delta),
         tick_delta            |-> tick_delta,
         cumulative_tick_delta |-> cumsum(tick_delta),
         book_imbalance        |-> imbalance_pct(bid_size_of(df), ask_size_of(df)),
         delta_pct             |-> imbalance_pct(buy_vol, sell_vol),
         buy_volume            |-> buy_vol,
         sell_volume           |-> sell_vol,
         uptick_volume         |-> uptick_of(df),
         downtick_volume       |-> downtick_of(df)]

\* groupby(Date).cumsum(): the running total of a restarted at the first
\* bar of each day of df
cumsum_per_day(df, a) ==
    LET first_of_day(i) == i = 1 \/ df[i]["Date"] # df[i - 1]["Date"]
        start(i) == CHOOSE k \in 1..i :
                        first_of_day(k) /\ \A j \in (k + 1)..i : ~first_of_day(j)
    IN  [i \in 1..Len(a) |-> cumsum(SubSeq(a, start(i), i))[i - start(i) + 1]]

\* the running sums of get_delta_data restarted every day
delta_derived_per_day(df) ==
    LET buy_vol    == buy_vol_of(df)
        sell_vol   == sell_vol_of(df)
        delta      == SeriesSub(buy_vol, sell_vol)
        tick_delta == SeriesSub(uptick_of(df), downtick_of(df))
    IN  [delta                 |-> delta,
         cumulative_delta      |-> cumsum_per_day(df, delta),
         tick_delta            |-> tick_delta,
         cumulative_tick_delta |-> cumsum_per_day(df, tick_delta),
         book_imbalance        |-> imbalance_pct(bid_size_of(df), ask_size_of(df)),
         delta_pct             |-> imbalance_pct(buy_vol, sell_vol),
         buy_volume            |-> buy_vol,
         sell_volume           |-> sell_vol,
         uptick_volume         |-> uptick_of(df),
         downtick_volume       |-> downtick_of(df)]

\* the derived arrays of get_delta_data
delta_derived(df) ==
    LET buy_vol    == buy_vol_of(df)
        sell_vol   == sell_vol_of(df)
        delta      == SeriesSub(buy_vol, sell_vol)
        tick_delta == SeriesSub(uptick_of(df), downtick_of(df))
    IN  [delta                 |-> delta,
         cumulative_delta      |-> cumsum(delta),
         tick_delta            |-> tick_delta,
         cumulative_tick_delta |-> cumsum(tick_delta),
         book_imbalance        |-> imbalance_pct(bid_size_of(df), ask_size_of(df)),
         delta_pct             |-> imbalance_pct(buy_vol, sell_vol),
         buy_volume            |-> buy_vol,
         sell_volume           |-> sell_vol,
         uptick_volume         |-> uptick_of(df),
         downtick_volume       |-> downtick_of(df)]

Derived(ep, df) ==
    IF ep = "accumulation" THEN accumulation_derived(df)
    ELSE IF ep = "delta" THEN delta_derived(df)
    ELSE << >>

\* the "ok" response of a date-filtered endpoint other than /api/signal
sibling_response(ep, df, timestamps) ==
    LET pass    == PassThrough(ep)
        derived == Derived(ep, df)
    IN  [key \in {"s", "t"} \cup DOMAIN pass \cup DOMAIN derived |->
            IF key = "s" THEN "ok"
            ELSE IF key = "t" THEN timestamps
            ELSE IF key \in DOMAIN derived THEN derived[key]
            ELSE Col(df, pass[key])]

ok_response(ep, df, timestamps) ==
    IF ep = "signal" THEN signal_response(df, timestamps)
    ELSE sibling_response(ep, df, timestamps)

\* get_spread_data builds the timestamps from the frame as queried and
\* fills the gaps afterwards; every other endpoint fills first
fills_first(ep) == ep # "spread"

\* the frame the timestamp loop iterates over
timestamp_frame(ep, raw) == IF fills_first(ep) THEN gap_fill(raw) ELSE raw

\* the timestamp loop raises
transform_raises(ep, raw) == ~timestamps_ok(timestamp_frame(ep, raw), date_is_float(raw))

\* the value of df when the handler leaves the try block
frame_after(ep, raw) ==
    IF ~fills_first(ep) /\ transform_raises(ep, raw) THEN raw ELSE gap_fill(raw)

\* no_data: what every handler returns on an empty result
no_data_response == [s |-> "no_data"]

\* generate_sample_data(): 100 points 300 s apart whose prices and volumes
\* are random; step is the price change drawn and now the clock
generate_sample_data(step, now) ==
    LET n      == 100
        price  == [i \in 1..n |->
                      IF 150 + step * i < 100 THEN Num(100) ELSE Num(150 + step * i)]
    IN  [t |-> [i \in 1..n |-> now - 86400 + (i - 1) * 300],
         o |-> price,
         h |-> [i \in 1..n |-> RAdd(price[i], Num(Abs(step)))],
         l |-> [i \in 1..n |-> RSub(price[i], Num(Abs(step)))],
         c |-> price,
         v |-> [i \in 1..n |-> IF step < 0 THEN 1000 ELSE 50000]]

SampleHistory == {generate_sample_data(step, 86400) : step \in {-2, 2}}

\* the payload a handler returns when get_database_connection() gives None
\* and, for the sample endpoints, also from its except block
sample_payloads(ep) ==
    CASE ep = "history" -> SampleHistory
      [] ep = "spread" ->
           {[s |-> "ok", min_spread |-> <<Rat(1, 100), Rat(15, 1000), Rat(12, 1000)>>,
             max_spread |-> <<Rat(2, 100), Rat(25, 1000), Rat(22, 1000)>>]}
      [] ep = "indicators" ->
           {[s |-> "ok", vwap |-> <<Rat(1505, 10), Rat(1512, 10), Rat(1508, 10)>>,
             total_trades |-> <<Num(100), Num(120), Num(95)>>]}
      [] ep = "volume" ->
           {[s |-> "ok", volume |-> <<Num(1000), Num(1200), Num(950)>>,
             total_trades |-> <<Num(50), Num(60), Num(45)>>]}
      [] ep = "liquidity" ->
           {[s |-> "ok", open_bid_size |-> <<Num(100), Num(150), Num(200)>>,
             open_ask_size |-> <<Num(120), Num(180), Num(220)>>]}
      [] ep = "flow" ->
           {[s |-> "ok", trade_at_bid |-> <<Num(50), Num(60), Num(45)>>,
             trade_at_ask |-> <<Num(40), Num(55), Num(35)>>]}

\* "if not con: return ..."
no_connection_responses(ep) ==
    IF ep \in SampleEndpoints THEN sample_payloads(ep) ELSE {no_data_response}

\* every except block answering with the endpoint's sample payload or,
\* where there is none, with the no_data marker
exception_responses_untagged(ep, message) ==
    IF ep \in SampleEndpoints THEN sample_payloads(ep) ELSE {no_data_response}

\* "except Exception as e: return ..."
exception_responses(ep, message) ==
    IF ep \in SampleEndpoints THEN sample_payloads(ep)
    ELSE {[s |-> "error", message |-> message]}

(* ---------------- /api/history ---------------- *)

\* the rows <<t, o, h, l, c, v>> of the history query for one minute slot
HistoryRow(slot) ==
    <<timestamp(D1 \div 10000, (D1 % 10000) \div 100, D1 % 100, 9, SlotMinute(slot)),
      Num(150 + slot), Num(152 + slot), Num(149 + slot), Num(151 + slot), 1000 * slot>>

\* ORDER BY TimeBarStart LIMIT 1000
HistoryLimit == 1000

\* a ticker with one bar more than the limit, a minute apart from 09:30 on
LongHistory ==
    [i \in 1..(HistoryLimit + 1) |->
        <<timestamp(D1 \div 10000, (D1 % 10000) \div 100, D1 % 100, 9, 29 + i),
          Num(150), Num(152), Num(149), Num(151), i>>]

history_results(ticker) ==
    IF ticker = NVDA THEN {SubSeq(LongHistory, 1, HistoryLimit)} ELSE
    {LET rows == [i \in 1..Cardinality(S) |-> HistoryRow(Ascending(S)[i])]
     IN  SubSeq(rows, 1, IF Len(rows) < HistoryLimit THEN Len(rows) ELSE HistoryLimit) :
        S \in {S0 \in SUBSET (IF ticker = AMD THEN 1..3
                              ELSE IF ticker \in {MSFT, GOOGL} THEN {4} ELSE {}) :
                  Cardinality(S0) <= MaxBars}}

history_response(result) ==
    [t |-> [i \in 1..Len(result) |-> result[i][1]],
     o |-> [i \in 1..Len(result) |-> result[i][2]],
     h |-> [i \in 1..Len(result) |-> result[i][3]],
     l |-> [i \in 1..Len(result) |-> result[i][4]],
     c |-> [i \in 1..Len(result) |-> result[i][5]],
     v |-> [i \in 1..Len(result) |-> result[i][6]],
     s |-> "ok"]

(* ---------------- the SQL statements ---------------- *)

\* the symbols requested: a ticker, the ticker in lower case, and the
\* ticker followed by a quote and a comment mark
Symbols == {MSFT, <<"m", "s", "f", "t">>, MSFT \o <<"'", "-", "-">>}

\* symbol.upper()
upper(chars) ==
    LET lower == <<"a", "b", "c", "d", "e", "f", "g", "h", "i", "j", "k", "l", "m",
                   "n", "o", "p", "q", "r", "s", "t", "u", "v", "w", "x", "y", "z">>
        caps  == <<"A", "B", "C", "D", "E", "F", "G", "H", "I", "J", "K", "L", "M",
                   "N", "O", "P", "Q", "R", "S", "T", "U", "V", "W", "X", "Y", "Z">>
    IN  [i \in 1..Len(chars) |->
            IF \E k \in 1..Len(lower) : lower[k] = chars[i]
            THEN caps[CHOOSE k \in 1..Len(lower) : lower[k] = chars[i]]
            ELSE chars[i]]

\* f"{date}": the decimal digits of a non-negative int
RECURSIVE format_int(_)
format_int(n) ==
    IF n < 10 THEN <<Digits[n + 1]>>
    ELSE format_int(n \div 10) \o <<Digits[(n % 10) + 1]>>

\* no statement built yet
NoQuery == [text |-> << >>, params |-> << >>]

\* the statement a handler passes to con.execute(): its text, the pieces
\* formatted into it character by character, and the bound parameters
build_query(ep, sym, d) ==
    IF ep = "history"
    THEN [text   |-> <<"SELECT ... FROM taq_1min WHERE Ticker = ", "?",
                       " ORDER BY TimeBarStart LIMIT 1000">>,
          params |-> <<sym>>]
    ELSE [text   |-> <<"SELECT ... FROM taq_1min WHERE Ticker = '">>
                     \o upper(sym) \o <<"'">>
                     \o (IF d # 0 THEN <<" AND Date = ">> \o format_int(d) ELSE << >>)
                     \o <<" ORDER BY Date, TimeBarStart">>,
          params |-> << >>]

\* What the engine makes of a statement: the ticker compared with (the
\* bound value, or the literal up to its first quote), whether the date
\* filter takes part (a "--" after the literal comments out the rest of
\* its line), and whether the text parses at all.
statement(q) ==
    IF Len(q.params) > 0
    THEN [ok |-> TRUE, ticker |-> q.params[1], dated |-> FALSE]
    ELSE LET text    == q.text
             close   == CHOOSE k \in 2..Len(text) :
                            text[k] = "'" /\ \A j \in 2..(k - 1) : text[j] # "'"
             rest    == SubSeq(text, close + 1, Len(text))
             comment == Len(rest) >= 2 /\ rest[1] = "-" /\ rest[2] = "-"
         IN  [ok     |-> comment \/ rest[1] \in {" AND Date = ", " ORDER BY Date, TimeBarStart"},
              ticker |-> SubSeq(text, 2, close - 1),
              dated  |-> ~comment /\ rest[1] = " AND Date = "]

(* ---------------- the request handlers as a state machine ---------------- *)

VARIABLES
    pc,        \* position of the handler: idle, connect, query, fetched, done
    endpoint,  \* the endpoint requested
    symbol,    \* the symbol parameter, as its characters
    sql,       \* the statement passed to con.execute()
    peer,      \* the local variables of a second handler, running concurrently
    date,      \* the date parameter (0: None)
    con,       \* the connection: "none", "open", "closed"
    result,    \* the rows the query returned
    df,        \* the handler's local df
    path,      \* the branch the handler returned from
    response,  \* the value returned
    window     \* the resolution, from_ and to parameters of /api/history

\* the local variables of the handler
locals == <<pc, endpoint, symbol, date, con, sql, result, df, path, response, window>>

vars == <<locals, peer>>

\* a handler's local variables before its request arrives
idle_handler ==
    [pc |-> "idle", endpoint |-> "signal", symbol |-> AMD, date |-> 0, con |-> "none",
     sql |-> NoQuery, result |-> << >>, df |-> << >>, path |-> "none", response |-> << >>]

\* a number of seconds as <<minutes, seconds>>: from_ and to are Python
\* integers and the default of to lies beyond 32 bits
Time(t) == <<t \div 60, t % 60>>

\* a <= b on numbers of seconds
NotAfter(a, b) == a[1] < b[1] \/ (a[1] = b[1] /\ a[2] <= b[2])

\* "to: int = 9999999999"
DefaultTo == <<166666666, 39>>

\* "resolution: str = "60", from_: int = 0, to: int = 9999999999"
default_window == [resolution |-> "60", from_ |-> Time(0), to |-> DefaultTo]

Init ==
    /\ pc = "idle"
    /\ window = default_window
    /\ endpoint = "signal"
    /\ symbol = AMD
    /\ sql = NoQuery
    /\ peer = idle_handler
    /\ date = 0
    /\ con = "none"
    /\ result = << >>
    /\ df = << >>
    /\ path = "none"
    /\ response = << >>

\* the bars of the ticker whose TimeBarStart lies between from_ and to
history_fetch_in_range ==
    {SelectSeq(rows, LAMBDA r : NotAfter(window.from_, Time(r[1]))
                                /\ NotAfter(Time(r[1]), window.to)) :
        rows \in history_results(statement(build_query(endpoint, symbol, date)).ticker)}

\* "result = con.execute(query, [symbol]).fetchall()" of get_history
history_fetch ==
    history_results(statement(build_query(endpoint, symbol, date)).ticker)

\* a request arrives: GET /api/<ep>?symbol=...&date=d, and for /api/history
\* &resolution=...&from_=...&to=...
Request(ep, sym, d, w) ==
    /\ pc = "idle"
    /\ window' = IF ep = "history" THEN w ELSE default_window
    /\ pc' = "connect"
    /\ endpoint' = ep
    /\ symbol' = sym
    /\ sql' = NoQuery
    /\ UNCHANGED peer
    /\ date' = IF ep = "history" THEN 0 ELSE d
    /\ con' = "none"
    /\ result' = << >>
    /\ df' = << >>
    /\ path' = "none"
    /\ response' = << >>

\* con = get_database_connection() returns a connection
ConnectOpen ==
    /\ pc = "connect"
    /\ pc' = "query"
    /\ con' = "open"
    /\ UNCHANGED <<endpoint, symbol, date, sql, result, df, path, response, peer, window>>

\* get_database_connection() returns None: "if not con: return ..."
ConnectNone ==
    /\ pc = "connect"
    /\ pc' = "done"
    /\ path' = "no_connection"
    /\ response' \in no_connection_responses(endpoint)
    /\ UNCHANGED <<endpoint, symbol, date, sql, con, result, df, peer, window>>

\* duckdb.connect() raises inside get_database_connection()
ConnectRaise ==
    /\ pc = "connect"
    /\ pc' = "done"
    /\ path' = "connect_error"
    /\ response' \in exception_responses(endpoint, "connect")
    /\ UNCHANGED <<endpoint, symbol, date, sql, con, result, df, peer, window>>

\* con.execute(query) returns rows; get_history closes the connection
ExecuteQuery ==
    /\ pc = "query"
    /\ pc' = "fetched"
    /\ sql' = build_query(endpoint, symbol, date)
    /\ LET st == statement(build_query(endpoint, symbol, date))
       IN  /\ st.ok
           /\ result' \in IF endpoint = "history" THEN history_fetch
                          ELSE query_results(endpoint, st.ticker,
                                             IF st.dated THEN date ELSE 0)
    /\ df' = result'
    /\ con' = IF endpoint = "history" THEN "closed" ELSE con
    /\ UNCHANGED <<endpoint, symbol, date, path, response, peer, window>>

\* con.execute(query) raises
ExecuteRaise ==
    /\ pc = "query"
    /\ pc' = "done"
    /\ path' = "query_error"
    /\ sql' = build_query(endpoint, symbol, date)
    /\ response' \in exception_responses(endpoint, "query")
    /\ UNCHANGED <<endpoint, symbol, date, con, result, df, peer, window>>

\* the empty check left out: an empty frame yields "ok" with empty arrays
RespondEmptyArrays ==
    /\ pc = "fetched"
    /\ Len(result) = 0
    /\ pc' = "done"
    /\ path' = "no_data"
    /\ response' = [s |-> "ok", t |-> << >>]
    /\ UNCHANGED <<endpoint, symbol, date, sql, con, result, df, peer, window>>

\* "if df.empty: return {"s": "no_data"}"
RespondNoData ==
    /\ pc = "fetched"
    /\ Len(result) = 0
    /\ pc' = "done"
    /\ path' = "no_data"
    /\ response' = no_data_response
    /\ UNCHANGED <<endpoint, symbol, date, sql, con, result, df, peer, window>>

\* get_history turns the rows into arrays
RespondHistory ==
    /\ pc = "fetched"
    /\ Len(result) > 0
    /\ endpoint = "history"
    /\ pc' = "done"
    /\ path' = "ok"
    /\ response' = history_response(result)
    /\ UNCHANGED <<endpoint, symbol, date, sql, con, result, df, peer, window>>

\* gap fill, timestamps and derived arrays of a date-filtered endpoint
RespondOk ==
    /\ pc = "fetched"
    /\ Len(result) > 0
    /\ endpoint # "history"
    /\ ~transform_raises(endpoint, result)
    /\ pc' = "done"
    /\ path' = "ok"
    /\ df' = frame_after(endpoint, result)
    /\ response' = ok_response(endpoint, df',
                               timestamps_of(timestamp_frame(endpoint, result),
                                             date_is_float(result)))
    /\ UNCHANGED <<endpoint, symbol, date, sql, con, result, peer, window>>

\* no except block: the exception leaves the handler and no body is returned
RespondRaiseEscapes ==
    /\ pc = "fetched"
    /\ Len(result) > 0
    /\ endpoint # "history"
    /\ transform_raises(endpoint, result)
    /\ pc' = "done"
    /\ path' = "escaped"
    /\ df' = frame_after(endpoint, result)
    /\ response' = << >>
    /\ UNCHANGED <<endpoint, symbol, date, sql, con, result, peer, window>>

\* the timestamp loop raises and the except block answers
RespondRaise ==
    /\ pc = "fetched"
    /\ Len(result) > 0
    /\ endpoint # "history"
    /\ transform_raises(endpoint, result)
    /\ pc' = "done"
    /\ path' = "transform_error"
    /\ df' = frame_after(endpoint, result)
    /\ response' \in exception_responses(endpoint, "transform")
    /\ UNCHANGED <<endpoint, symbol, date, sql, con, result, peer, window>>

\* the response is sent and the worker takes the next request
Finish ==
    /\ pc = "done"
    /\ window' = default_window
    /\ pc' = "idle"
    /\ endpoint' = "signal"
    /\ symbol' = AMD
    /\ sql' = NoQuery
    /\ UNCHANGED peer
    /\ date' = 0
    /\ con' = "none"
    /\ result' = << >>
    /\ df' = << >>
    /\ path' = "none"
    /\ response' = << >>

Next ==
    \/ \E ep \in Endpoints, d \in {0, D1} : Request(ep, AMD, d, default_window)
    \/ ConnectOpen
    \/ ConnectNone
    \/ ConnectRaise
    \/ ExecuteQuery
    \/ ExecuteRaise
    \/ RespondNoData
    \/ RespondHistory
    \/ RespondOk
    \/ RespondRaise
    \/ Finish

Spec == Init /\ [][Next]_vars

(* ---------------- a second handler, running concurrently ---------------- *)

\* df as a module-level name: the frame last stored by the other handler
module_global_frame(own) == df

\* df is a local name of the handler: it reads the frame it stored itself
handler_frame(own) == own

\* the outcomes <<path, df, response>> of a handler on the frame raw
respond(ep, raw) ==
    IF Len(raw) = 0 THEN {<<"no_data", raw, no_data_response>>}
    ELSE IF ep = "history" THEN {<<"ok", raw, history_response(raw)>>}
    ELSE IF transform_raises(ep, raw)
    THEN {<<"transform_error", frame_after(ep, raw), r>> :
             r \in exception_responses(ep, "transform")}
    ELSE {<<"ok", frame_after(ep, raw),
            ok_response(ep, frame_after(ep, raw),
                        timestamps_of(timestamp_frame(ep, raw), date_is_float(raw)))>>}

PeerRequest(ep, sym, d) ==
    /\ peer.pc = "idle"
    /\ peer' = [idle_handler EXCEPT !.pc = "connect", !.endpoint = ep, !.symbol = sym,
                                    !.date = IF ep = "history" THEN 0 ELSE d]
    /\ UNCHANGED locals

\* con = get_database_connection(): a connection, None, or an exception
PeerConnect ==
    /\ peer.pc = "connect"
    /\ \/ peer' = [peer EXCEPT !.pc = "query", !.con = "open"]
       \/ \E r \in no_connection_responses(peer.endpoint) :
              peer' = [peer EXCEPT !.pc = "done", !.path = "no_connection", !.response = r]
       \/ \E r \in exception_responses(peer.endpoint, "connect") :
              peer' = [peer EXCEPT !.pc = "done", !.path = "connect_error", !.response = r]
    /\ UNCHANGED locals

\* con.execute(query): rows, or an exception
PeerExecute ==
    /\ peer.pc = "query"
    /\ LET q  == build_query(peer.endpoint, peer.symbol, peer.date)
           st == statement(q)
       IN  \/ /\ st.ok
              /\ \E r \in IF peer.endpoint = "history" THEN history_results(st.ticker)
                          ELSE query_results(peer.endpoint, st.ticker,
                                             IF st.dated THEN peer.date ELSE 0) :
                     peer' = [peer EXCEPT !.pc = "fetched", !.sql = q, !.result = r, !.df = r,
                                          !.con = IF peer.endpoint = "history"
                                                  THEN "closed" ELSE peer.con]
           \/ \E r \in exception_responses(peer.endpoint, "query") :
                  peer' = [peer EXCEPT !.pc = "done", !.sql = q, !.path = "query_error",
                                       !.response = r]
    /\ UNCHANGED locals

\* the empty check, the transformation and the return
PeerRespond ==
    /\ peer.pc = "fetched"
    /\ \E o \in respond(peer.endpoint, handler_frame(peer.df)) :
           peer' = [peer EXCEPT !.pc = "done", !.path = o[1], !.df = o[2], !.response = o[3]]
    /\ UNCHANGED locals

PeerFinish ==
    /\ peer.pc = "done"
    /\ peer' = idle_handler
    /\ UNCHANGED locals

ConcurrentEndpoints == {"signal", "spread", "history"}

\* two handlers, each serving requests for MSFT, their steps interleaved
NextConcurrent ==
    \/ \E ep \in ConcurrentEndpoints : Request(ep, MSFT, 0, default_window)
    \/ ConnectOpen
    \/ ConnectNone
    \/ ConnectRaise
    \/ ExecuteQuery
    \/ ExecuteRaise
    \/ RespondNoData
    \/ RespondHistory
    \/ RespondOk
    \/ RespondRaise
    \/ Finish
    \/ \E ep \in ConcurrentEndpoints : PeerRequest(ep, MSFT, 0)
    \/ PeerConnect
    \/ PeerExecute
    \/ PeerRespond
    \/ PeerFinish

SpecConcurrent == Init /\ [][NextConcurrent]_vars

\* requests for GOOGL, whose bars cover the calendar and the clock
NextClock ==
    \/ \E ep \in {"signal", "spread", "history"} : Request(ep, GOOGL, 0, default_window)
    \/ ConnectOpen
    \/ ConnectNone
    \/ ConnectRaise
    \/ ExecuteQuery
    \/ ExecuteRaise
    \/ RespondNoData
    \/ RespondHistory
    \/ RespondOk
    \/ RespondRaise
    \/ Finish

SpecClock == Init /\ [][NextClock]_vars

\* requests for the symbols of Symbols, with and without a date
NextSymbols ==
    \/ \E ep \in Endpoints, sym \in Symbols, d \in {0, D1 + 1} : Request(ep, sym, d, default_window)
    \/ ConnectOpen
    \/ ConnectNone
    \/ ConnectRaise
    \/ ExecuteQuery
    \/ ExecuteRaise
    \/ RespondNoData
    \/ RespondHistory
    \/ RespondOk
    \/ RespondRaise
    \/ Finish

SpecSymbols == Init /\ [][NextSymbols]_vars

\* the resolution, from_ and to values requested: ranges that hold all the
\* bars, that start after the first bar, that end at the first bar or at the
\* last bar within the limit, and that start after the last bar
Windows ==
    [resolution : {"1", "60", "D"},
     from_      : {Time(0), Time(LongHistory[2][1]),
                   Time(LongHistory[HistoryLimit + 1][1] + 60)},
     to         : {Time(LongHistory[1][1]), Time(LongHistory[HistoryLimit][1]), DefaultTo}]

\* /api/history of the long ticker under every window, beside the handlers
\* on the small tables
NextHistory ==
    \/ \E w \in Windows : Request("history", NVDA, 0, w)
    \/ \E ep \in {"signal", "spread", "history"} : Request(ep, MSFT, 0, default_window)
    \/ ConnectOpen
    \/ ConnectNone
    \/ ConnectRaise
    \/ ExecuteQuery
    \/ ExecuteRaise
    \/ RespondNoData
    \/ RespondHistory
    \/ RespondOk
    \/ RespondRaise
    \/ Finish

SpecHistory == Init /\ [][NextHistory]_vars

(* ---------------- properties ---------------- *)

\* the handler of /api/signal has returned its "ok" response
SignalOk == pc = "done" /\ endpoint = "signal" /\ path = "ok"

Rows == 1..Len(result)

InRange(x) == RLe(Lo, x) /\ RLe(x, Hi)

NonNegative(x) == RLe(Num(0), x)

\* C1: in every "ok" response of /api/signal every element of
\* combined_signal lies in [-100, 100], whatever the raw fields are.
C1_CombinedSignalInRange ==
    SignalOk => \A i \in Rows : InRange(response.combined_signal[i])

\* a response for a bar with a negative raw field whose delta quotient is
\* beyond the range
C1_Witness ==
    /\ SignalOk
    /\ \E i \in Rows :
          /\ df[i]["TradeAtBid"][1] < 0
          /\ RLt(Hi, imbalance_pct(buy_vol_of(df), sell_vol_of(df))[i])
          /\ response.combined_signal[i] # Num(0)

\* division guarded the way the design notes propose: 0 on a zero divisor
safe_div(numerator, denominator) ==
    IF denominator = Num(0) THEN Num(0) ELSE RDiv(numerator, denominator)

guarded_score(plus, minus) ==
    clip1(RMul(safe_div(RSub(plus, minus), RAdd(plus, minus)), Num(100)), Lo, Hi)

\* C2 as stated: a zero total_volume, total_tick or total_size gives a zero
\* score, for every bar
C2_ZeroTotalZeroScore ==
    SignalOk =>
        \A i \in Rows :
            /\ RAdd(buy_vol_of(df)[i], sell_vol_of(df)[i]) = Num(0)
                  => response.delta_score[i] = Num(0)
            /\ RAdd(uptick_of(df)[i], downtick_of(df)[i]) = Num(0)
                  => response.tick_score[i] = Num(0)
            /\ RAdd(bid_size_of(df)[i], ask_size_of(df)[i]) = Num(0)
                  => response.book_score[i] = Num(0)

\* C2 amended: for the bars whose fields are non-negative, a zero total
\* gives a zero score and each score equals the guarded division's
C2_ZeroTotalZeroScoreNonNegative ==
    SignalOk =>
        \A i \in Rows :
            /\ (\A c \in {"TradeAtAsk", "TradeAtMidAsk", "TradeAtBid", "TradeAtBidMid"} :
                    NonNegative(df[i][c]))
                  => /\ response.delta_score[i]
                          = guarded_score(buy_vol_of(df)[i], sell_vol_of(df)[i])
                     /\ RAdd(buy_vol_of(df)[i], sell_vol_of(df)[i]) = Num(0)
                          => response.delta_score[i] = Num(0)
            /\ (\A c \in TickColumns : NonNegative(df[i][c]))
                  => /\ response.tick_score[i]
                          = guarded_score(uptick_of(df)[i], downtick_of(df)[i])
                     /\ RAdd(uptick_of(df)[i], downtick_of(df)[i]) = Num(0)
                          => response.tick_score[i] = Num(0)
            /\ (\A c \in SizeColumns : NonNegative(df[i][c]))
                  => /\ response.book_score[i]
                          = guarded_score(bid_size_of(df)[i], ask_size_of(df)[i])
                     /\ RAdd(bid_size_of(df)[i], ask_size_of(df)[i]) = Num(0)
                          => response.book_score[i] = Num(0)

\* a response for a bar with all three totals zero and non-negative fields
C2_Witness ==
    /\ SignalOk
    /\ \E i \in Rows :
          /\ \A c \in (TradeColumns \cup TickColumns \cup SizeColumns) : df[i][c] = Num(0)
          /\ response.delta_score[i] = Num(0)
          /\ response.tick_score[i] = Num(0)
          /\ response.book_score[i] = Num(0)

\* s[1] + ... + s[i], added left to right
RECURSIVE PrefixSum(_, _)
PrefixSum(series, i) ==
    IF i = 0 THEN Num(0) ELSE RAdd(PrefixSum(series, i - 1), series[i])

\* C3: cumulative_signal[i] is the left-to-right sum of combined_signal[0..i].
C3_CumulativeIsPrefixSum ==
    SignalOk =>
        /\ Len(response.cumulative_signal) = Len(response.combined_signal)
        /\ \A i \in Rows :
              response.cumulative_signal[i] = PrefixSum(response.combined_signal, i)

\* the example: combined_signal = [10, -5, 20], cumulative_signal = [10, 5, 25]
C3_Witness ==
    /\ SignalOk
    /\ response.combined_signal = <<Num(10), Num(-5), Num(20)>>
    /\ response.cumulative_signal = <<Num(10), Num(5), Num(25)>>

\* C4: momentum[0] = 0 and momentum[i] = cumulative_signal[i] -
\* cumulative_signal[i-1] for i > 0.
C4_Momentum ==
    SignalOk =>
        /\ Len(response.momentum) = Len(result)
        /\ response.momentum[1] = Num(0)
        /\ \A i \in Rows \ {1} :
              response.momentum[i]
                  = RSub(response.cumulative_signal[i], response.cumulative_signal[i - 1])

\* the example: momentum = [0, -5, 20] although combined_signal[0] = 10
C4_Witness ==
    /\ SignalOk
    /\ response.cumulative_signal = <<Num(10), Num(5), Num(25)>>
    /\ response.momentum = <<Num(0), Num(-5), Num(20)>>

\* C5: each of the four scores lies in [-100, 100] in every row, and
\* mid_score = clip(100 * TradeToMidVolWeightRelative, -100, 100).
C5_ScoresInRange ==
    SignalOk =>
        \A i \in Rows :
            /\ InRange(response.delta_score[i])
            /\ InRange(response.tick_score[i])
            /\ InRange(response.book_score[i])
            /\ InRange(response.mid_score[i])
            /\ LET x == RMul(Num(100), df[i]["TradeToMidVolWeightRelative"])
               IN  response.mid_score[i]
                       = IF RLt(x, Lo) THEN Lo ELSE IF RLt(Hi, x) THEN Hi ELSE x

\* the example: a relative weight of 1.5 gives mid_score 100
C5_Witness ==
    /\ SignalOk
    /\ \E i \in Rows :
          /\ df[i]["TradeToMidVolWeightRelative"] = Rat(3, 2)
          /\ response.mid_score[i] = Num(100)

\* C6: combined_signal[i] = clip(0.40 delta + 0.25 tick + 0.20 book +
\* 0.15 mid, -100, 100) and the four weights sum to 1.
C6_CombinedFormula ==
    /\ RAdd(RAdd(Weights.delta, Weights.tick), RAdd(Weights.book, Weights.mid)) = Num(1)
    /\ SignalOk =>
        \A i \in Rows :
            LET x == RAdd(RAdd(RMul(Rat(2, 5), response.delta_score[i]),
                               RMul(Rat(1, 4), response.tick_score[i])),
                          RAdd(RMul(Rat(1, 5), response.book_score[i]),
                               RMul(Rat(3, 20), response.mid_score[i])))
            IN  response.combined_signal[i]
                    = IF RLt(x, Lo) THEN Lo ELSE IF RLt(Hi, x) THEN Hi ELSE x

\* a row in which all four scores are non-zero and differ
C6_Witness ==
    /\ SignalOk
    /\ \E i \in Rows :
          /\ response.delta_score[i] = Num(-100)
          /\ response.tick_score[i] = Num(-50)
          /\ response.book_score[i] = Num(-100)
          /\ response.mid_score[i] = Num(100)
          /\ response.combined_signal[i] = Rat(-115, 2)

\* the handler has run "df = df.ffill().fillna(0)" on the query result
GapFilled ==
    /\ pc = "done"
    /\ endpoint \in DateEndpoints
    /\ path = "ok" \/ (path = "transform_error" /\ fills_first(endpoint))

\* the rows above row i of the query result in which column c is present
Present(c, i) == {j \in 1..(i - 1) : ~isna(c, result[j][c])}

Latest(S) == CHOOSE j \in S : \A k \in S : k <= j

\* C7: gap filling keeps the length, keeps the present values, and replaces
\* a missing value by the latest present value above it, or by 0 if there
\* is none.
C7_GapFill ==
    GapFilled =>
        /\ Len(df) = Len(result)
        /\ \A i \in Rows : \A c \in DOMAIN result[i] :
              df[i][c] = IF ~isna(c, result[i][c]) THEN result[i][c]
                         ELSE IF Present(c, i) = {} THEN zero_of(c)
                         ELSE result[Latest(Present(c, i))][c]

\* a column with a leading gap (filled with 0) and two gaps in a row after
\* a present value (both filled with that value)
C7_Witness ==
    /\ GapFilled
    /\ endpoint = "signal"
    /\ \E c \in {"UptickVolume"} : \E i \in Rows :
          /\ i + 2 \in Rows
          /\ ~isna(c, result[i][c])
          /\ result[i][c] # Num(0)
          /\ isna(c, result[i + 1][c])
          /\ isna(c, result[i + 2][c])
          /\ df[i + 2][c] = result[i][c]
    /\ \E c \in {"OpenBidSize"} :
          /\ isna(c, result[1][c])
          /\ df[1][c] = Num(0)

\* C8: gap filling is idempotent.
C8_GapFillIdempotent == GapFilled => gap_fill(df) = df

\* a frame that gap filling changed by carrying a value down two rows
C8_Witness ==
    /\ GapFilled
    /\ endpoint = "spread"
    /\ df # result
    /\ Len(result) >= 3
    /\ \E c \in {"LastTradePrice"} :
          /\ ~isna(c, result[1][c])
          /\ isna(c, result[2][c])
          /\ isna(c, result[3][c])
          /\ df[3][c] = result[1][c]

\* the query ran and returned no rows
EmptyResult ==
    /\ pc = "done"
    /\ path \notin {"no_connection", "connect_error", "query_error"}
    /\ Len(result) = 0

\* C9: on an empty query result every data endpoint returns the no_data
\* marker and nothing else.
C9_NoData ==
    EmptyResult => DOMAIN response = {"s"} /\ response.s = "no_data"

\* an endpoint other than /api/signal answering an empty result; the
\* connection was obtained and the query ran
C9_Witness ==
    /\ EmptyResult
    /\ endpoint = "history"
    /\ con = "closed"
    /\ "t" \notin DOMAIN response

\* the "ok" response of /api/signal for the one-row frame <<row>>
OneRow(row, t) == signal_response(<<row>>, <<t>>)

\* C10: in an "ok" response of /api/signal t has one entry per input bar,
\* every array is as long as t, element i of every array comes from bar i,
\* and the input order is kept.
C10_Aligned ==
    SignalOk =>
        /\ Len(response.t) = Len(result)
        /\ \A key \in DOMAIN response \ {"s"} : Len(response[key]) = Len(response.t)
        /\ \A i \in Rows : response.t[i] = row_timestamp(result[i], FALSE)[2]
        /\ \A i \in Rows :
              LET one == OneRow(df[i], response.t[i])
              IN  \A key \in {"delta_score", "tick_score", "book_score", "mid_score",
                              "combined_signal", "signal_strength", "last_price",
                              "vwap", "volume", "min_spread", "max_spread"} :
                      response[key][i] = one[key][1]
        /\ \A i \in Rows : \A j \in Rows : i < j => response.t[i] < response.t[j]

\* three bars over two trading days whose scores differ
C10_Witness ==
    /\ SignalOk
    /\ Len(response.t) = 3
    /\ result[1]["Date"] # result[3]["Date"]
    /\ response.combined_signal[1] # response.combined_signal[2]
    /\ response.combined_signal[2] # response.combined_signal[3]

\* the status marker of a response ("none" when it carries none)
Status(resp) == IF "s" \in DOMAIN resp THEN resp.s ELSE "none"

\* the branches a handler takes when a step fails
FailurePaths == {"no_connection", "connect_error", "query_error", "transform_error"}

\* the branches taken through an except block
RaisePaths == {"connect_error", "query_error", "transform_error"}

\* a body the JSON encoder accepts: a mapping with a status marker or the
\* six OHLCV arrays, whose numbers are all finite
WellFormed(ep, resp) ==
    /\ \/ "s" \in DOMAIN resp
       \/ DOMAIN resp = {"t", "o", "h", "l", "c", "v"}
    /\ ep \in DateEndpoints =>
          \A key \in DOMAIN resp \ {"s", "t", "message"} :
              \A i \in 1..Len(resp[key]) : IsFinite(resp[key][i])

\* C11: no handler lets an exception escape: whichever step failed, the
\* handler returns, and what it returns is a well-formed body.
C11_NoEscape ==
    pc = "done" => path # "escaped" /\ WellFormed(endpoint, response)

\* the timestamp loop of /api/spread raised on a frame with rows and the
\* handler answered
C11_Witness ==
    /\ pc = "done"
    /\ endpoint = "spread"
    /\ path = "transform_error"
    /\ Len(result) > 0
    /\ WellFormed(endpoint, response)

\* C12: when a step of /api/signal, /api/delta or /api/accumulation raises,
\* the response is the marker "error" and a message, without any array.
C12_ErrorResponse ==
    (pc = "done" /\ endpoint \in {"signal", "delta", "accumulation"} /\ path \in RaisePaths)
        => /\ DOMAIN response = {"s", "message"}
           /\ response.s = "error"
           /\ response.message \in {"connect", "query", "transform"}

\* /api/delta answering a frame whose timestamp loop raised
C12_Witness ==
    /\ pc = "done"
    /\ endpoint = "delta"
    /\ path = "transform_error"
    /\ Len(result) > 0
    /\ response = [s |-> "error", message |-> "transform"]

\* resp has the marker and the keys of a response of the except block
SameAsTransformError(ep, resp) ==
    \E r \in exception_responses(ep, "transform") :
        DOMAIN resp = DOMAIN r /\ Status(resp) = Status(r)

\* C13: a source-unavailable condition (no connection returned, or
\* connecting raised) gives a response with the marker and shape of the
\* one given when the transformation raises, in every data endpoint.
C13_UnavailableAsTransformError ==
    (pc = "done" /\ path \in {"no_connection", "connect_error"})
        => SameAsTransformError(endpoint, response)

\* C14: every failure path yields a tagged response: its marker is neither
\* that of real data ("ok") nor that of an empty result ("no_data").
C14_FailuresTagged ==
    (pc = "done" /\ path \in FailurePaths) => Status(response) \notin {"ok", "no_data", "none"}

\* the statement of the request has been passed to con.execute()
Executed == pc \in {"fetched", "done"} /\ sql # NoQuery

\* C15: every endpoint issues a parameterized query: the text executed is
\* the one executed for any other symbol and date, and the symbol is among
\* the bound parameters.
C15_Parameterized ==
    Executed =>
        /\ \A sym \in Symbols, d \in {0, D1 + 1} :
               build_query(endpoint, sym, d).text = sql.text
        /\ \E i \in 1..Len(sql.params) : sql.params[i] = symbol

\* response is what a handler running alone returns from the branch path
\* when its query gave rows
Alone(ep, branch, rows, resp) ==
    CASE branch = "no_connection" -> resp \in no_connection_responses(ep)
      [] branch = "connect_error" -> resp \in exception_responses(ep, "connect")
      [] branch = "query_error" -> resp \in exception_responses(ep, "query")
      [] branch = "no_data" -> Len(rows) = 0 /\ resp = no_data_response
      [] branch = "transform_error" ->
           /\ Len(rows) > 0 /\ ep # "history" /\ transform_raises(ep, rows)
           /\ resp \in exception_responses(ep, "transform")
      [] branch = "ok" ->
           /\ Len(rows) > 0
           /\ IF ep = "history" THEN resp = history_response(rows)
              ELSE /\ ~transform_raises(ep, rows)
                   /\ resp = ok_response(ep, gap_fill(rows),
                                         timestamps_of(timestamp_frame(ep, rows),
                                                       date_is_float(rows)))
      [] OTHER -> FALSE

\* C16: whatever the interleaving of two handlers, each returns what it
\* would return running alone on its own query result.
C16_NoInterference ==
    /\ pc = "done" => Alone(endpoint, path, result, response)
    /\ peer.pc = "done" => Alone(peer.endpoint, peer.path, peer.result, peer.response)

\* both handlers have answered /api/signal while the other was in flight,
\* one from bars and one from a frame whose timestamp loop raised
C16_Witness ==
    /\ pc = "done" /\ peer.pc = "done"
    /\ endpoint = "signal" /\ peer.endpoint = "signal"
    /\ path = "ok" /\ peer.path = "transform_error"
    /\ Len(result) > 0 /\ Len(peer.result) > 0
    /\ Alone(peer.endpoint, peer.path, peer.result, peer.response)

\* a date-keyed handler has returned on a result of one bar
OneBarDone == pc = "done" /\ endpoint \in DateEndpoints /\ Len(result) = 1

\* dv encodes a day of the calendar as YYYYMMDD
IsCalendarDate(dv) ==
    \E y \in Years, m \in 1..12 :
        \E d \in 1..DaysInMonth(y, m) : dv = y * 10000 + m * 100 + d

\* C18: for every valid calendar date YYYYMMDD the components year, month
\* and day taken from it satisfy year*10000 + month*100 + day = date with
\* 1 <= month <= 12 and 1 <= day <= 31, and the bar gets the timestamp of
\* that day.
C18_DateDecomposition ==
    (OneBarDone /\ IsFinite(result[1]["Date"]) /\ IsCalendarDate(result[1]["Date"][1])) =>
        LET dv == result[1]["Date"][1]
            p  == date_parts(dv)
            hm == hour_minute(result[1]["TimeBarStart"])
        IN  /\ p[1] * 10000 + p[2] * 100 + p[3] = dv
            /\ p[2] \in 1..12
            /\ p[3] \in 1..31
            /\ path = "ok"
            /\ response.t = <<timestamp(p[1], p[2], p[3], hm[2], hm[3])>>

\* the bar of 29 February 2000 answered by /api/signal
C18_Witness ==
    /\ OneBarDone
    /\ endpoint = "signal"
    /\ path = "ok"
    /\ result[1]["Date"] = Num(20000229)
    /\ date_parts(20000229) = <<2000, 2, 29>>
    /\ response.t = <<timestamp(2000, 2, 29, 9, 30)>>

\* the hour and minute a TimeBarStart cell shows, read off its positions
ShownHourMinute(cell) ==
    IF cell.k = "time" THEN <<cell.h, cell.m>>
    ELSE <<DigitVal(cell.s[1]) * 10 + DigitVal(cell.s[2]),
           DigitVal(cell.s[4]) * 10 + DigitVal(cell.s[5])>>

\* C19: a time-of-day value and the strings 'HH:MM' and 'HH:MM:SS' of the
\* same hour and minute normalize to the same (hour, minute) pair and so,
\* for the same date, to the same timestamp.
C19_TimeFormsAgree ==
    (OneBarDone /\ result[1]["Date"] = Num(D1)) =>
        LET cell == result[1]["TimeBarStart"]
            hm   == ShownHourMinute(cell)
        IN  /\ hm[1] \in 0..23 /\ hm[2] \in 0..59
            /\ \E fmt \in TimeFormats : cell = TimeCell(hm[1], hm[2], fmt)
            /\ \A fmt \in TimeFormats :
                   hour_minute(TimeCell(hm[1], hm[2], fmt)) = <<TRUE, hm[1], hm[2]>>
            /\ path = "ok"
            /\ response.t = <<timestamp(D1 \div 10000, (D1 % 10000) \div 100, D1 % 100,
                                        hm[1], hm[2])>>

\* the bar of 23:59 given as 'HH:MM:SS', answered by /api/spread
C19_Witness ==
    /\ OneBarDone
    /\ endpoint = "spread"
    /\ path = "ok"
    /\ result[1]["TimeBarStart"] = TimeCell(23, 59, "hhmmss")
    /\ response.t = <<timestamp(2020, 1, 28, 23, 59)>>

\* what /api/signal returns on the first i bars of rows alone
OnPrefix(rows, i) ==
    LET head == SubSeq(rows, 1, i)
    IN  signal_response(gap_fill(head),
                        timestamps_of(timestamp_frame("signal", head), date_is_float(head)))

\* C20: row i of every array /api/signal returns depends on the bars up to
\* i only: it is the row i returned for those bars alone, whatever follows.
C20_PrefixDetermined ==
    SignalOk =>
        \A i \in 1..Len(result) :
            LET alone == OnPrefix(result, i)
            IN  /\ ~transform_raises("signal", SubSeq(result, 1, i))
                /\ \A key \in DOMAIN response \ {"s"} : response[key][i] = alone[key][i]

\* a response on several bars whose last bar moves the running total, its
\* first row being the one returned for the first bar alone
C20_Witness ==
    /\ SignalOk
    /\ Len(result) >= 2
    /\ response.momentum[Len(result)] # Num(0)
    /\ response.cumulative_signal[1] # Num(0)
    /\ LET alone == OnPrefix(result, 1)
       IN  \A key \in DOMAIN response \ {"s"} : response[key][1] = alone[key][1]

\* a handler with running sums has returned "ok" on an unfiltered request
RunningOk == pc = "done" /\ path = "ok" /\ date = 0 /\ endpoint \in {"signal", "delta"}

\* bar i is the first bar of a later trading day than bar i - 1
LaterDay(i) == i >= 2 /\ RLt(result[i - 1]["Date"], result[i]["Date"])

\* C21: the running sums restart at the first bar of the request only: at
\* the first bar of a later day cumulative_signal (cumulative_delta) is the
\* previous day's last value plus the bar's own value.
C21_NoResetPerDay ==
    RunningOk =>
        LET own == IF endpoint = "signal" THEN response.combined_signal ELSE response.delta
            run == IF endpoint = "signal" THEN response.cumulative_signal
                   ELSE response.cumulative_delta
        IN  /\ run[1] = own[1]
            /\ \A i \in 2..Len(result) : LaterDay(i) => run[i] = RAdd(run[i - 1], own[i])

\* an unfiltered /api/signal response over two days: the first bar of the
\* second day carries the first day's total on
C21_Witness ==
    /\ RunningOk
    /\ endpoint = "signal"
    /\ \E i \in 2..Len(result) :
           /\ LaterDay(i)
           /\ response.cumulative_signal[i - 1] # Num(0)
           /\ response.combined_signal[i] # Num(0)
           /\ response.cumulative_signal[i] # response.combined_signal[i]

\* the handler of /api/delta has returned its "ok" response
DeltaOk == pc = "done" /\ endpoint = "delta" /\ path = "ok"

\* (w + x) - (y + z) of four fields of the gap-filled bar i
Net(i, w, x, y, z) == RSub(RAdd(df[i][w], df[i][x]), RAdd(df[i][y], df[i][z]))

\* C22: in /api/delta, delta[i] is (TradeAtAsk + TradeAtMidAsk) -
\* (TradeAtBid + TradeAtBidMid) in raw units, tick_delta[i] is (UptickVolume
\* + RepeatUptickVolume) - (DowntickVolume + RepeatDowntickVolume), and
\* cumulative_delta[i], cumulative_tick_delta[i] are their sums over 0..i.
C22_DeltaFormulas ==
    DeltaOk =>
        \A i \in Rows :
            /\ response.delta[i] =
                   Net(i, "TradeAtAsk", "TradeAtMidAsk", "TradeAtBid", "TradeAtBidMid")
            /\ response.tick_delta[i] =
                   Net(i, "UptickVolume", "RepeatUptickVolume",
                       "DowntickVolume", "RepeatDowntickVolume")
            /\ response.cumulative_delta[i] = PrefixSum(response.delta, i)
            /\ response.cumulative_tick_delta[i] = PrefixSum(response.tick_delta, i)

\* a /api/delta response on several bars with repeat tick volume, whose
\* running sums have moved away from their first value
C22_Witness ==
    /\ DeltaOk
    /\ Len(result) >= 2
    /\ \E i \in Rows : df[i]["RepeatDowntickVolume"] # Num(0)
    /\ response.cumulative_delta[Len(result)] # response.delta[Len(result)]
    /\ response.cumulative_tick_delta[Len(result)] # response.tick_delta[Len(result)]

\* C23: the gap fill and timestamp loop of the date-filtered endpoints are
\* one routine: on the rows an endpoint was given, every other endpoint's
\* copy fails exactly when this one failed and otherwise yields the same t.
C23_SameRoutine ==
    (pc = "done" /\ endpoint \in DateEndpoints /\ Len(result) > 0) =>
        \A ep \in DateEndpoints :
            /\ transform_raises(ep, result) <=> path = "transform_error"
            /\ path = "ok" =>
                   response.t = timestamps_of(timestamp_frame(ep, result),
                                              date_is_float(result))

\* no trade or size field of the rows returned is negative (a missing
\* field is not)
NonNegativeRows ==
    \A i \in Rows : \A c \in TradeColumns \cup SizeColumns :
        IsNaN(result[i][c]) \/ NonNegative(result[i][c])

\* C24: on bars whose raw fields are all non-negative the clip of
\* delta_score and book_score changes nothing: /api/delta's delta_pct and
\* book_imbalance equal, row by row, /api/signal's delta_score and
\* book_score of the same rows.
C24_ClipIsNoOp ==
    /\ (DeltaOk /\ NonNegativeRows) =>
           /\ response.delta_pct = delta_score_of(df)
           /\ response.book_imbalance = book_score_of(df)
    /\ (SignalOk /\ NonNegativeRows) =>
           /\ response.delta_score = delta_derived(df).delta_pct
           /\ response.book_score = delta_derived(df).book_imbalance

\* a /api/delta response on non-negative bars whose delta_pct and book
\* imbalance are not zero
C24_Witness ==
    /\ DeltaOk
    /\ NonNegativeRows
    /\ \E i \in Rows : response.delta_pct[i] \notin {Num(0), Lo, Hi}
    /\ \E i \in Rows : response.book_imbalance[i] \notin {Num(0), Lo, Hi}
    /\ response.book_imbalance = book_score_of(df)

C26_ConnectionsClosed == pc = "done" => con # "open"

\* the other one of /api/accumulation and /api/delta
Twin(ep) == IF ep = "accumulation" THEN "delta" ELSE "accumulation"

\* the arrays /api/accumulation and /api/delta both return
TwinKeys == {"buy_volume", "sell_volume", "delta", "cumulative_delta"}

\* C27: on the same rows /api/accumulation and /api/delta return the same
\* buy_volume, sell_volume, delta and cumulative_delta, and without a
\* connection, on an empty result and on an exception the same marker.
C27_TwinsAgree ==
    (pc = "done" /\ endpoint \in {"accumulation", "delta"}) =>
        IF path = "ok"
        THEN LET twin == Derived(Twin(endpoint), df)
             IN  \A key \in TwinKeys : response[key] = twin[key]
        ELSE Alone(Twin(endpoint), path, result, response)

\* a /api/accumulation response on several bars with passive buying, whose
\* running delta has moved
C27_Witness ==
    /\ pc = "done" /\ endpoint = "accumulation" /\ path = "ok"
    /\ Len(result) >= 2
    /\ \E i \in Rows : df[i]["TradeAtMidAsk"] # Num(0)
    /\ response.cumulative_delta[Len(result)] # response.delta[Len(result)]
    /\ response.cumulative_delta = delta_derived(df).cumulative_delta

\* C28: the response of /api/history is fixed by the symbol and the bars
\* stored under it: whatever resolution, from_ and to are requested, it holds
\* the first 1000 bars in TimeBarStart order, and never more than 1000.
C28_HistoryIgnoresWindow ==
    (pc = "done" /\ endpoint = "history" /\ path = "ok") =>
        /\ Len(response.t) <= HistoryLimit
        /\ symbol = NVDA =>
               response = history_response(SubSeq(LongHistory, 1, HistoryLimit))

\* a /api/history response of 1000 bars out of 1001 to a request whose range
\* starts after the first bar returned and ends before the last one
C28_Witness ==
    /\ pc = "done" /\ endpoint = "history" /\ symbol = NVDA /\ path = "ok"
    /\ window.resolution # default_window.resolution
    /\ ~NotAfter(window.from_, Time(response.t[1]))
    /\ ~NotAfter(Time(response.t[Len(response.t)]), window.to)
    /\ Len(response.t) = HistoryLimit
    /\ Len(LongHistory) > HistoryLimit

====
